---- MODULE Spec2Model ----
(***************************************************************************)
(* pydat5-dev backend: the /query controller (api/controller/v1/query.py)  *)
(* and the plugin registry (core/plugins.py).                              *)
(*                                                                         *)
(* Strings that the code inspects character by character (int(), lower())  *)
(* are sequences of one-character strings.                                 *)
(***************************************************************************)
EXTENDS Integers, Sequences, FiniteSets, TLC

VARIABLES
    \* ---- query() : one request at a time -------------------------------
    variant,     \* which side of the unresolved merge in query.py is built
    pc,          \* position of the request inside query()
    req,         \* raw request.args: query, size, page, unique
    query,       \* local `query`   (after line 15)
    page_size,   \* local `page_size`
    page_num,    \* local `page_num`
    unique,      \* local `unique` after lines 18-26
    skip,        \* local `skip`
    results,     \* local `results`
    calls,       \* calls made to elastic.advanced_search in this request
    outcome,     \* how the request ended
    \* ---- plugin registry ------------------------------------------------
    PLUGINS,     \* list of valid Plugin objects
    USER_PREF,   \* dictionary of plugin user preferences
    gp,          \* get_plugins(): modules still to import; "idle" when not running
    imported,    \* modules of the namespace already in sys.modules
    last,        \* the latest call of a wrapped factory: candidate and what it raised
    accepted     \* history: the candidates of the successful calls, in call order

qvars == <<variant, pc, req, query, page_size, page_num, unique, skip, results,
           calls, outcome>>
rvars == <<PLUGINS, USER_PREF, gp, imported, last, accepted>>
vars == <<variant, pc, req, query, page_size, page_num, unique, skip, results,
          calls, outcome, PLUGINS, USER_PREF, gp, imported, last, accepted>>

None == "None"

(***************************************************************************)
(* Bounds.                                                                 *)
(***************************************************************************)
MaxTotal == 7      \* totals the backend reports: 0..MaxTotal
MaxCalls == 4      \* calls of wrapped factories in one run
NumModules == 2    \* modules found under the plugin namespace

(***************************************************************************)
(* Python helpers used by query().                                         *)
(***************************************************************************)
Digits == <<"0", "1", "2", "3", "4", "5", "6", "7", "8", "9">>

IsDigit(c) == \E i \in 1..10 : Digits[i] = c

DigitVal(c) == (CHOOSE i \in 1..10 : Digits[i] = c) - 1

RECURSIVE DigitsVal(_)
DigitsVal(s) ==
    IF Len(s) = 0 THEN 0
    ELSE 10 * DigitsVal(SubSeq(s, 1, Len(s) - 1)) + DigitVal(s[Len(s)])

\* int(s) for a str s: an optional sign followed by one or more decimal digits;
\* anything else is ValueError.
PyIntStr(s) ==
    LET signed == Len(s) > 0 /\ s[1] \in {"-", "+"}
        body   == IF signed THEN Tail(s) ELSE s
        valid  == Len(body) > 0 /\ \A i \in 1..Len(body) : IsDigit(body[i])
    IN  IF ~valid THEN [ok |-> FALSE, n |-> 0]
        ELSE [ok |-> TRUE,
              n  |-> IF signed /\ s[1] = "-" THEN 0 - DigitsVal(body)
                     ELSE DigitsVal(body)]

\* int(request.args.get(key, default=d)): the default is already an int.
IntArg(param, d) ==
    IF param.present THEN PyIntStr(param.s) ELSE [ok |-> TRUE, n |-> d]

LowerChar(c) ==
    CASE c = "T" -> "t"
      [] c = "R" -> "r"
      [] c = "U" -> "u"
      [] c = "E" -> "e"
      [] c = "F" -> "f"
      [] c = "A" -> "a"
      [] c = "L" -> "l"
      [] c = "S" -> "s"
      [] OTHER -> c

\* str.lower()
Lower(s) == [i \in 1..Len(s) |-> LowerChar(s[i])]

StrTrue == <<"t", "r", "u", "e">>

\* str(False), the text of the default of request.args.get("unique", default=False)
StrOfFalse == <<"F", "a", "l", "s", "e">>

\* CeilDiv got wrong: the quotient rounded down, plus one
CeilDivPlusOne(total, size) == (total \div size) + 1

\* ceil(total / page_size) for total >= 0, page_size >= 1
CeilDiv(total, size) == (total + size - 1) \div size

(***************************************************************************)
(* query(): the values a request can carry.                                *)
(***************************************************************************)
MergeSides == {"HEAD", "6395ab9"}

Absent == [present |-> FALSE, s |-> <<>>]

Given(s) == [present |-> TRUE, s |-> s]

\* request.args.get(key, default=None) found no such key
IsNone(param) == ~param.present

\* the defaults of lines 16 and 17
DefaultSize == 20
DefaultPage == 1

\* raw texts of ?size= and ?page=
RawNumbers ==
    { <<>>, <<"0">>, <<"1">>, <<"2">>, <<"3">>, <<"2", "0">>, <<"-", "1">>,
      <<"a", "b", "c">>, <<"1", "a">>, <<"-">> }

\* raw texts of ?unique=
RawFlags ==
    { <<"t", "r", "u", "e">>, <<"T", "R", "U", "E">>, <<"T", "r", "u", "e">>,
      <<"t", "R", "u", "E">>, <<"f", "a", "l", "s", "e">>, <<>>,
      <<"t", "r", "u", "e", "x">>, <<"1">> }

\* raw texts of ?query=
RawQueries == { <<"x">>, <<>> }

Params(raws) == {Absent} \cup {Given(s) : s \in raws}

NoOutcome == [kind |-> "none", msg |-> "", n |-> 0]

ClientError(msg, n) == [kind |-> "ClientError", msg |-> msg, n |-> n]

ServerError(msg) == [kind |-> "ServerError", msg |-> msg, n |-> 0]

\* an exception that leaves query() as it was raised
Escapes(type) == [kind |-> type, msg |-> "", n |-> 0]

Returned(res) == [kind |-> "result", msg |-> "", n |-> res.total]

(***************************************************************************)
(* query(), lines 14-28: reading the parameters.                           *)
(***************************************************************************)
\* lines 18-26: the value of `unique` after the if/else, or the exception the
\* test raises. The source holds both sides of an unresolved merge.
ParseUnique(side, param) ==
    IF side = "HEAD"
    THEN \* str(unique).lower() == 'true'
         LET text == IF param.present THEN param.s ELSE StrOfFalse
         IN  [exc |-> "none", val |-> (Lower(text) = StrTrue)]
    ELSE \* unique.lower() == 'true': the default False has no lower()
         IF param.present
         THEN [exc |-> "none", val |-> (Lower(param.s) = StrTrue)]
         ELSE [exc |-> "AttributeError", val |-> FALSE]

\* the whole try block, with its except ValueError
ParseArgs(side, r) ==
    LET q    == r.query
        size == IntArg(r.size, DefaultSize)
        page == IntArg(r.page, DefaultPage)
        uniq == ParseUnique(side, r.unique)
        done == [query |-> q, page_size |-> size.n, page_num |-> page.n,
                 unique |-> uniq.val, exc |-> "none"]
    IN  IF ~size.ok THEN [done EXCEPT !.exc = "ValueError"]
        ELSE IF ~page.ok THEN [done EXCEPT !.exc = "ValueError"]
        ELSE [done EXCEPT !.exc = uniq.exc]

(***************************************************************************)
(* query(), lines 30-41: validation and the offset.                        *)
(***************************************************************************)
\* ValidationError got wrong: the page size is checked before the query
ValidationErrorSizeFirst(q, size, page) ==
    IF size < 1 THEN ClientError("Invalid page size provided", size)
    ELSE IF IsNone(q) THEN ClientError("Query required", 0)
    ELSE IF page < 1 THEN ClientError("Invalid page number", page)
    ELSE NoOutcome

\* the error raised by lines 30-39, or NoOutcome
ValidationError(q, size, page) ==
    IF IsNone(q) THEN ClientError("Query required", 0)
    ELSE IF size < 1 THEN ClientError("Invalid page size provided", size)
    ELSE IF page < 1 THEN ClientError("Invalid page number", page)
    ELSE NoOutcome

\* Skip got wrong: pages counted from zero
SkipFromZero(page, size) == page * size

\* line 41
Skip(page, size) == (page - 1) * size

\* line 47
PageTooHigh(page, total, size) == page > CeilDiv(total, size)

(***************************************************************************)
(* query() as a process: one request is read, validated, sent to the       *)
(* search backend and bound-checked.                                       *)
(***************************************************************************)
NoRequest == [query |-> Absent, size |-> Absent, page |-> Absent, unique |-> Absent]

NoResults == [total |-> 0]

InitQueryVars ==
    /\ variant \in MergeSides
    /\ pc = "idle"
    /\ req = NoRequest
    /\ query = Absent
    /\ page_size = 0
    /\ page_num = 0
    /\ unique = FALSE
    /\ skip = 0
    /\ results = NoResults
    /\ calls = <<>>
    /\ outcome = NoOutcome

\* the HTTP layer dispatches GET /query to query(); requests share no state, so
\* a behaviour follows one request
Request(q, s, p, u) ==
    /\ pc = "idle"
    /\ pc' = "parse"
    /\ req' = [query |-> q, size |-> s, page |-> p, unique |-> u]
    /\ query' = Absent
    /\ page_size' = 0
    /\ page_num' = 0
    /\ unique' = FALSE
    /\ skip' = 0
    /\ results' = NoResults
    /\ calls' = <<>>
    /\ outcome' = NoOutcome
    /\ UNCHANGED <<variant>>
    /\ UNCHANGED rvars

\* lines 14-28
Parse ==
    /\ pc = "parse"
    /\ LET a == ParseArgs(variant, req)
       IN  /\ query' = a.query
           /\ page_size' = a.page_size
           /\ page_num' = a.page_num
           /\ unique' = a.unique
           /\ IF a.exc = "none"
              THEN pc' = "validate" /\ outcome' = outcome
              ELSE /\ pc' = "done"
                   /\ outcome' = IF a.exc = "ValueError"
                                 THEN ClientError("Input paramaters are of the wrong type", 0)
                                 ELSE Escapes(a.exc)
    /\ UNCHANGED <<variant, req, skip, results, calls>>
    /\ UNCHANGED rvars

\* lines 30-41
Validate ==
    /\ pc = "validate"
    /\ LET error == ValidationError(query, page_size, page_num)
       IN  IF error # NoOutcome
           THEN pc' = "done" /\ outcome' = error /\ skip' = skip
           ELSE /\ pc' = "search"
                /\ outcome' = outcome
                /\ skip' = Skip(page_num, page_size)
    /\ UNCHANGED <<variant, req, query, page_size, page_num, unique, results, calls>>
    /\ UNCHANGED rvars

\* the arguments of elastic.advanced_search(query, skip, page_size, unique)
SearchCall(how) ==
    [query |-> query, skip |-> skip, size |-> page_size, unique |-> unique,
     ended |-> how]

\* lines 42-43: the backend answers with a total
SearchReturns(total) ==
    /\ pc = "search"
    /\ calls' = Append(calls, SearchCall("returned"))
    /\ results' = [total |-> total]
    /\ pc' = "bound"
    /\ UNCHANGED <<variant, req, query, page_size, page_num, unique, skip, outcome>>
    /\ UNCHANGED rvars

\* lines 42-45: the backend call raises elastic.ConnectionError
SearchConnectionError ==
    /\ pc = "search"
    /\ calls' = Append(calls, SearchCall("ConnectionError"))
    /\ outcome' = ServerError("Search failed to connect")
    /\ pc' = "done"
    /\ UNCHANGED <<variant, req, query, page_size, page_num, unique, skip, results>>
    /\ UNCHANGED rvars

\* lines 42-45: the backend call raises ESQueryError, which no except clause names
SearchQueryError ==
    /\ pc = "search"
    /\ calls' = Append(calls, SearchCall("ESQueryError"))
    /\ outcome' = Escapes("ESQueryError")
    /\ pc' = "done"
    /\ UNCHANGED <<variant, req, query, page_size, page_num, unique, skip, results>>
    /\ UNCHANGED rvars

\* lines 47-50
PageBound ==
    /\ pc = "bound"
    /\ outcome' = IF PageTooHigh(page_num, results.total, page_size)
                  THEN ClientError("Page number is too high", page_num)
                  ELSE Returned(results)
    /\ pc' = "done"
    /\ UNCHANGED <<variant, req, query, page_size, page_num, unique, skip, results, calls>>
    /\ UNCHANGED rvars

(***************************************************************************)
(* Plugin registry (core/plugins.py).                                      *)
(* A candidate is what a factory handed to register() produces:            *)
(*   made      FALSE when the factory itself raises                        *)
(*   base      isinstance(plugin, PluginBase)                              *)
(*   bp        what plugin.blueprint() does: returns a "Blueprint",        *)
(*             returns an "other" object, or raises "NotImplementedError"   *)
(*             (PluginBase.blueprint, not overridden)                       *)
(*   name, user_pref   the attributes set by PluginBase.__init__           *)
(***************************************************************************)
Names == {"whois", "passive"}

Prefs == {None, "prefsA", "prefsB"}

PluginObjects ==
    [made : {TRUE}, base : {TRUE}, bp : {"Blueprint", "other", "NotImplementedError"},
     name : Names, user_pref : Prefs]

NotAPlugin ==
    [made |-> TRUE, base |-> FALSE, bp |-> "other", name |-> "", user_pref |-> None]

FactoryRaises ==
    [made |-> FALSE, base |-> FALSE, bp |-> "other", name |-> "", user_pref |-> None]

Candidates == PluginObjects \cup {NotAPlugin, FactoryRaises}

\* Rejection got wrong: the isinstance(plugin_bp, Blueprint) test is left out
RejectionNoBlueprintTest(c) ==
    IF ~c.made THEN "FactoryError"
    ELSE IF ~c.base THEN "TypeError: wrong type"
    ELSE IF c.bp = "NotImplementedError" THEN "NotImplementedError"
    ELSE "none"

\* lines 72-78: the exception that stops wrapped() before it registers, or "none"
Rejection(c) ==
    IF ~c.made THEN "FactoryError"
    ELSE IF ~c.base THEN "TypeError: wrong type"
    ELSE IF c.bp = "NotImplementedError" THEN "NotImplementedError"
    ELSE IF c.bp # "Blueprint" THEN "TypeError: must return a blueprint"
    ELSE "none"

\* AppendPlugin got wrong: a plugin whose name is registered already is dropped
AppendPluginOncePerName(plugins, c) ==
    IF \E i \in 1..Len(plugins) : plugins[i].name = c.name
    THEN plugins
    ELSE Append(plugins, c)

\* line 79: PLUGINS.append(plugin)
AppendPlugin(plugins, c) == Append(plugins, c)

\* SetUserPref got wrong: USER_PREF.setdefault(plugin.name, plugin.user_pref)
SetUserPrefDefault(prefs, c) ==
    IF c.user_pref # None /\ c.name \notin DOMAIN prefs
    THEN [n \in DOMAIN prefs \cup {c.name} |->
            IF n = c.name THEN c.user_pref ELSE prefs[n]]
    ELSE prefs

\* lines 81-82: USER_PREF[plugin.name] = plugin.user_pref, if there are preferences
SetUserPref(prefs, c) ==
    IF c.user_pref # None
    THEN [n \in DOMAIN prefs \cup {c.name} |->
            IF n = c.name THEN c.user_pref ELSE prefs[n]]
    ELSE prefs

\* Wrapped got wrong: the plugin is appended before blueprint() is looked at
WrappedAppendFirst(plugins, prefs, c) ==
    IF ~c.made THEN [PLUGINS |-> plugins, USER_PREF |-> prefs, exc |-> "FactoryError"]
    ELSE IF ~c.base
    THEN [PLUGINS |-> plugins, USER_PREF |-> prefs, exc |-> "TypeError: wrong type"]
    ELSE IF c.bp # "Blueprint"
    THEN [PLUGINS |-> Append(plugins, c), USER_PREF |-> prefs,
          exc |-> IF c.bp = "NotImplementedError" THEN "NotImplementedError"
                  ELSE "TypeError: must return a blueprint"]
    ELSE [PLUGINS |-> Append(plugins, c),
          USER_PREF |-> IF c.user_pref # None
                        THEN [n \in DOMAIN prefs \cup {c.name} |->
                                IF n = c.name THEN c.user_pref ELSE prefs[n]]
                        ELSE prefs,
          exc |-> "none"]

\* lines 71-83: one call of the function register() returns
Wrapped(plugins, prefs, c) ==
    LET exc == Rejection(c)
    IN  IF exc # "none"
        THEN [PLUGINS |-> plugins, USER_PREF |-> prefs, exc |-> exc]
        ELSE [PLUGINS |-> AppendPlugin(plugins, c),
              USER_PREF |-> SetUserPref(prefs, c),
              exc |-> "none"]

NoPrefs == [n \in {} |-> None]

Idle == [running |-> FALSE, pending |-> <<>>]

InitRegistryVars ==
    /\ PLUGINS = <<>>
    /\ USER_PREF = NoPrefs
    /\ gp = Idle
    /\ imported = {}
    /\ last = [n |-> 0, cand |-> NotAPlugin, exc |-> "none"]
    /\ accepted = <<>>

\* the state change of one call of a wrapped factory that produces c
CallWrapped(c) ==
    LET r == Wrapped(PLUGINS, USER_PREF, c)
    IN  /\ last.n < MaxCalls
        /\ PLUGINS' = r.PLUGINS
        /\ USER_PREF' = r.USER_PREF
        /\ last' = [n |-> last.n + 1, cand |-> c, exc |-> r.exc]
        /\ accepted' = IF r.exc = "none" THEN Append(accepted, c) ELSE accepted

\* a wrapped factory is called directly, as tests/conftest.py's start_plugin() is
Register(c) ==
    /\ ~gp.running
    /\ CallWrapped(c)
    /\ UNCHANGED <<gp, imported>>
    /\ UNCHANGED qvars

\* get_plugins(), line 47: the modules of the namespace, in iter_modules order
GetPluginsStart ==
    /\ ~gp.running
    /\ gp' = [running |-> TRUE, pending |-> [i \in 1..NumModules |-> i]]
    /\ UNCHANGED <<PLUGINS, USER_PREF, imported, last, accepted>>
    /\ UNCHANGED qvars

\* lines 48-49: import_module of a module not imported yet runs the module, which
\* calls its wrapped factory; an exception leaves get_plugins and the module
\* is not kept in sys.modules
ImportModule(c) ==
    /\ gp.running
    /\ gp.pending # <<>>
    /\ Head(gp.pending) \notin imported
    /\ CallWrapped(c)
    /\ IF Rejection(c) = "none"
       THEN /\ imported' = imported \cup {Head(gp.pending)}
            /\ gp' = [gp EXCEPT !.pending = Tail(gp.pending)]
       ELSE /\ imported' = imported
            /\ gp' = Idle
    /\ UNCHANGED qvars

\* lines 48-49: import_module of a module already in sys.modules runs nothing
ImportCached ==
    /\ gp.running
    /\ gp.pending # <<>>
    /\ Head(gp.pending) \in imported
    /\ gp' = [gp EXCEPT !.pending = Tail(gp.pending)]
    /\ UNCHANGED <<PLUGINS, USER_PREF, imported, last, accepted>>
    /\ UNCHANGED qvars

\* line 50: return PLUGINS
GetPluginsReturn ==
    /\ gp.running
    /\ gp.pending = <<>>
    /\ gp' = Idle
    /\ UNCHANGED <<PLUGINS, USER_PREF, imported, last, accepted>>
    /\ UNCHANGED qvars

(***************************************************************************)
(* Specifications.                                                         *)
(***************************************************************************)
Init == InitQueryVars /\ InitRegistryVars

InitHead == Init /\ variant = "HEAD"

NextQuery ==
    \/ \E q \in Params(RawQueries), s \in Params(RawNumbers),
          p \in Params(RawNumbers), u \in Params(RawFlags) : Request(q, s, p, u)
    \/ Parse
    \/ Validate
    \/ \E total \in 0..MaxTotal : SearchReturns(total)
    \/ SearchConnectionError
    \/ SearchQueryError
    \/ PageBound

NextRegistry ==
    \/ \E c \in Candidates : Register(c)
    \/ GetPluginsStart
    \/ \E c \in Candidates : ImportModule(c)
    \/ ImportCached
    \/ GetPluginsReturn

Next == NextQuery \/ NextRegistry

\* the /query controller, either side of the merge
SpecQuery == Init /\ [][NextQuery]_vars

\* the /query controller as HEAD has it
SpecQueryHead == InitHead /\ [][NextQuery]_vars

\* the plugin registry, which no line of query() touches
SpecRegistry == InitHead /\ [][NextRegistry]_vars

\* both together
Spec == Init /\ [][Next]_vars

(***************************************************************************)
(* Properties of query().                                                  *)
(***************************************************************************)
\* what the raw texts mean, written out
Numerals == { <<"0">>, <<"1">>, <<"2">>, <<"3">>, <<"2", "0">>, <<"-", "1">> }

TrueTexts == { <<"t", "r", "u", "e">>, <<"T", "R", "U", "E">>,
               <<"T", "r", "u", "e">>, <<"t", "R", "u", "E">> }

IntegerOrAbsent(param) == ~param.present \/ param.s \in Numerals

QueryRequired == ClientError("Query required", 0)

WrongType == ClientError("Input paramaters are of the wrong type", 0)

Ended == pc = "done"

BackendReturned == calls # <<>> /\ calls[Len(calls)].ended = "returned"

\* C1: a request with a query and page number 1, whose backend call succeeds
\* with any total >= 0, returns the backend's results and raises no ClientError.
C1_PageOneNeverTooHigh ==
    (Ended /\ ~IsNone(req.query) /\ page_num = 1 /\ BackendReturned)
        => outcome = Returned(results)

C3_UniqueParsing ==
    (pc \notin {"idle", "parse"} /\ calls = <<>>) =>
        /\ outcome.kind \in {"none", "ClientError"}
        /\ (IntegerOrAbsent(req.size) /\ IntegerOrAbsent(req.page))
              => unique = (req.unique.present /\ req.unique.s \in TrueTexts)

\* C4: every execution ends in a result, a ClientError or a ServerError; a
\* connection failure of the backend ends in ServerError "Search failed to
\* connect", and any other failure of the backend call is reclassified too.
C4_EveryEndingClassified ==
    Ended =>
        /\ outcome.kind \in {"result", "ClientError", "ServerError"}
        /\ (calls # <<>> /\ calls[Len(calls)].ended = "ConnectionError")
              => outcome = ServerError("Search failed to connect")

\* C5: when the backend call succeeds and the page number is greater than
\* ceil(total / page_size), i.e. the pages before it already hold total items,
\* the request ends in ClientError "Page number N is too high" with the page
\* number as requested, and returns no results.
C5_PageBeyondLastRejected ==
    (Ended /\ BackendReturned /\ (page_num - 1) * page_size >= results.total)
        => outcome = ClientError("Page number is too high", page_num)

\* a page beyond the last of a non-empty result was rejected
C5_Witness ==
    /\ Ended
    /\ BackendReturned
    /\ results.total > 0
    /\ page_num > 1
    /\ outcome = ClientError("Page number is too high", page_num)

\* C10: the backend is called at most once per request, only with a query
\* present, parameters that parsed, page_size >= 1 and page_num >= 1, and with
\* skip = (page_num - 1) * page_size >= 0; a failed call is not repeated.
C10_OneValidatedBackendCall ==
    /\ Len(calls) <= 1
    /\ calls # <<>> =>
        /\ ~IsNone(req.query)
        /\ IntegerOrAbsent(req.size) /\ IntegerOrAbsent(req.page)
        /\ page_size >= 1
        /\ page_num >= 1
        /\ calls[1].skip = (page_num - 1) * page_size
        /\ calls[1].skip >= 0
        /\ calls[1].size = page_size
        /\ calls[1].query = req.query
    /\ (Ended /\ calls # <<>> /\ calls[1].ended # "returned") => Len(calls) = 1

\* a backend call for a later page failed and the request ended at once
C10_Witness ==
    /\ Ended
    /\ Len(calls) = 1
    /\ calls[1].ended = "ConnectionError"
    /\ calls[1].skip > 0
    /\ outcome = ServerError("Search failed to connect")

(***************************************************************************)
(* Properties of the plugin registry.                                      *)
(***************************************************************************)
\* the candidate fails validation (or was never made)
Invalid(c) == ~c.made \/ ~c.base \/ c.bp # "Blueprint"

\* this step is a call of a wrapped factory
Called == last'.n # last.n

Entries(plugins) == {plugins[i] : i \in 1..Len(plugins)}

EntryNames(plugins) == {plugins[i].name : i \in 1..Len(plugins)}

\* C6: a call of a wrapped factory whose candidate fails validation raises, and
\* leaves PLUGINS and USER_PREF as they were; the candidate is not in PLUGINS.
C6_FailedRegistrationChangesNothing ==
    [][(Called /\ Invalid(last'.cand)) =>
          /\ last'.exc # "none"
          /\ PLUGINS' = PLUGINS
          /\ USER_PREF' = USER_PREF
          /\ last'.cand \notin Entries(PLUGINS')]_vars

\* a plugin whose blueprint() returned no Blueprint was rejected by a registry
\* that already held plugins and preferences
C6_Witness ==
    /\ last.exc = "TypeError: must return a blueprint"
    /\ last.cand.user_pref # None
    /\ PLUGINS # <<>>
    /\ DOMAIN USER_PREF # {}

\* C7: right after a successful registration of p, USER_PREF[p.name] is
\* p.user_pref if that is not None, and p.name is no key of USER_PREF otherwise.
C7_PrefsFollowLatestPlugin ==
    (last.n > 0 /\ ~Invalid(last.cand)) =>
        IF last.cand.user_pref # None
        THEN /\ last.cand.name \in DOMAIN USER_PREF
             /\ USER_PREF[last.cand.name] = last.cand.user_pref
        ELSE last.cand.name \notin DOMAIN USER_PREF

\* C7, amended: a successful registration of p sets USER_PREF[p.name] to
\* p.user_pref if that is not None, and otherwise leaves USER_PREF as it was, so
\* that p.name is a key afterwards exactly if it was one before.
C7_PrefsSetOrUntouched ==
    [][(Called /\ ~Invalid(last'.cand)) =>
          IF last'.cand.user_pref # None
          THEN /\ last'.cand.name \in DOMAIN USER_PREF'
               /\ USER_PREF'[last'.cand.name] = last'.cand.user_pref
               /\ \A n \in DOMAIN USER_PREF' \ {last'.cand.name} :
                     n \in DOMAIN USER_PREF /\ USER_PREF'[n] = USER_PREF[n]
          ELSE USER_PREF' = USER_PREF]_vars

\* a plugin without preferences was registered under a name that an earlier
\* plugin had given preferences
C7_Witness ==
    /\ last.n > 0
    /\ ~Invalid(last.cand)
    /\ last.cand.user_pref = None
    /\ last.cand.name \in DOMAIN USER_PREF

\* C8: PLUGINS is the sequence of the candidates of the successful calls, in
\* call order: nothing is removed, reordered or dropped for its name.
C8_RegistryIsSuccessHistory ==
    /\ PLUGINS = accepted
    /\ \A i \in 1..Len(accepted) : ~Invalid(accepted[i])

\* the same plugin was registered twice, with a failed attempt along the way
C8_Witness ==
    /\ Len(PLUGINS) = 3
    /\ PLUGINS[1] = PLUGINS[3]
    /\ PLUGINS[2].name # PLUGINS[1].name
    /\ last.n > 3

\* C9: every entry of PLUGINS is a PluginBase object whose blueprint() returned a
\* Blueprint, and every key of USER_PREF is the name of an entry of PLUGINS.
C9_RegistryInvariant ==
    /\ \A c \in Entries(PLUGINS) : c.made /\ c.base /\ c.bp = "Blueprint"
    /\ DOMAIN USER_PREF \subseteq EntryNames(PLUGINS)

\* successful and failed registrations were mixed and preferences are held
C9_Witness ==
    /\ Len(PLUGINS) >= 2
    /\ last.n > Len(PLUGINS)
    /\ Invalid(last.cand)
    /\ DOMAIN USER_PREF # {}

====
